---- MODULE Spec2Model ----
(***************************************************************************)
(* Red-black tree of include/tree/RBTree.h, with the callers of           *)
(* test/test_RBTree.cpp, and the plain binary tree of include/tree/BinTree.h *)
(* with its four traversals.                                               *)
(*                                                                         *)
(* The heap is a function from node addresses to node records; the caller  *)
(* holds the root slot.  Search, the two rotations, Insert, Remove and the *)
(* two fixups are operators over a machine record                          *)
(*   [h, root, top, ok, rots, calls, cases, seen]                          *)
(* where h is the heap, root the caller's root slot, top the slot a        *)
(* rotation received by reference, ok is FALSE once an assert has failed,  *)
(* rots / calls count the rotations and fixup invocations of the call,     *)
(* cases is the set of the fixup cases it went through and seen is what    *)
(* the fixups found where the code reads a relation again or relies on it. *)
(* A local variable of the code is a parameter of the operator that        *)
(* models the statements after its initialisation.                         *)
(***************************************************************************)
EXTENDS Integers, Sequences, FiniteSets, TLC

\* Without duplicates the values are drawn from 1..MaxVal.
MaxVal == 7

\* With duplicates the values are drawn from 1..MaxDupVal.
MaxDupVal == 2

\* The tree holds at most MaxNodes nodes.
MaxNodes == 7

\* The caller that fills the tree first inserts 1..FillNodes in ascending
\* order.
FillNodes == 10

\* nullptr / an empty weak_ptr.
Nil == 0

\* The caller that rotates builds a tree of at most MaxRotNodes nodes first.
MaxRotNodes == 5

\* A forest of BinTreeNodes holds at most MaxBinNodes nodes, with values in
\* 1..MaxBinVal.
MaxBinNodes == 4

MaxBinVal == 2

\* A traversal is called with a vector that already holds at most MaxPrior
\* values.
MaxPrior == 1

\* The values the caller passes under either duplicate policy.
ValuesFor(dup) == IF dup THEN 1..MaxDupVal ELSE 1..MaxVal

\* One address more than the tree can hold: the node a Remove returned is
\* still owned by the caller while the next call runs.
Addrs == 1..(MaxNodes + FillNodes + 1)

VARIABLES
    heap,        \* address -> [color, value, parent, left, right]
    root,        \* the caller's root slot
    ALLOW_DUP,   \* the template parameter of the instantiation
    workload,    \* the caller: "any" sequence of calls, "fill" then remove,
                 \* "rotate" after building a tree, or one of the tests
                 \* "InsertTest", "RemoveTest" and "RotateTest"
    script,      \* how many calls of its test's script the caller has made, -1
                 \* once it has left the script
    filled,      \* how many values the filling caller has inserted
    op,          \* the last call: "none" or the name of the function
    arg,         \* its value argument
    retInsert,   \* what the last Insert returned
    retRemove,   \* what the last Remove returned (an address or Nil)
    retSearch,   \* what the last Search returned (an address or Nil)
    failed,      \* an assert of RBTree.h has failed
    rots,        \* rotations performed by the last call
    calls,       \* fixup invocations of the last call
    cases,       \* the fixup cases the last call went through
    slot,        \* the slot the last rotation call was given, after the call
    swapped,     \* the last Remove swapped values with the in-order successor
    promoted,    \* the child the last Remove moved into the removed node's place
    bag,         \* value -> accepted Inserts minus successful Removes
    before,      \* the in-order values of the tree when the last call began
    roundTrip,   \* the last call removed the value the call before it inserted
    moved,       \* address when the last call began -> address after it (Nil
                 \* for a node that was destroyed); the node an Insert made is
                 \* the least address that was free
    seen,        \* what the fixups of the last call found at the places where
                 \* the code recomputes or relies on something
    bt,          \* BinTree.h: address -> [value, left, right]
    vec,         \* BinTree.h: the caller's std::vector
    outArg       \* BinTree.h: the last traversal was given &vec, not nullptr

vars == <<heap, root, ALLOW_DUP, workload, script, filled, op, arg, retInsert, retRemove, retSearch,
          failed, rots, calls, cases, slot, swapped, promoted, bag, before, roundTrip,
          moved, seen, bt, vec, outArg>>

-----------------------------------------------------------------------------
\* Node and its helpers

Node(color, value) ==
    [color |-> color, value |-> value, parent |-> Nil, left |-> Nil, right |-> Nil]

\* weak_ptr::lock(): the node if it is still alive, else nullptr.
Lock(h, p) == IF p \in DOMAIN h THEN p ELSE Nil

IsRootNode(h, n) == Lock(h, h[n].parent) = Nil

IsLeaf(h, n) == h[n].left = Nil /\ h[n].right = Nil

IsBlack(h, p) == p = Nil \/ h[p].color = "BLACK"

IsRed(h, p) == ~IsBlack(h, p)

\* make_shared: a fresh address (the least free one).
NewAddr(h) == CHOOSE a \in Addrs \ DOMAIN h : \A b \in Addrs \ DOMAIN h : a <= b

\* The heap with node a added.
Alloc(h, a, node) == [x \in DOMAIN h \cup {a} |-> IF x = a THEN node ELSE h[x]]

\* The last strong reference to node a goes away.
Release(h, a) == [x \in DOMAIN h \ {a} |-> h[x]]

Machine(h, r) ==
    [h |-> h, root |-> r, top |-> Nil, ok |-> TRUE, rots |-> 0, calls |-> 0, cases |-> {},
     seen |-> {}]

\* The call goes through the case named label (the name of the case in the
\* comments of RBTree.h, with the side of cur or of parent).
Case(m, label) == [m EXCEPT !.cases = @ \cup {label}]

\* At the place named at, in the fixup invocation m.calls, the facts named
\* in facts hold.
Seen(m, at, facts) ==
    [m EXCEPT !.seen = @ \cup {[at |-> at, facts |-> facts, calls |-> m.calls]}]

\* The one-element set of a fact that holds, the empty set of one that does
\* not.
Fact(name, holds) == IF holds THEN {name} ELSE {}

\* A failed assert: the call stops there.
Fail(m) == [m EXCEPT !.ok = FALSE]

-----------------------------------------------------------------------------
\* Search

\* Search that keeps descending to the left after a match and returns the
\* last match.
RECURSIVE SearchFrom_DeepestMatch(_, _, _)
SearchFrom_DeepestMatch(h, cur, value) ==
    IF cur = Nil THEN Nil
    ELSE IF value = h[cur].value
    THEN IF SearchFrom_DeepestMatch(h, h[cur].left, value) # Nil
         THEN SearchFrom_DeepestMatch(h, h[cur].left, value)
         ELSE cur
    ELSE IF value < h[cur].value THEN SearchFrom_DeepestMatch(h, h[cur].left, value)
    ELSE SearchFrom_DeepestMatch(h, h[cur].right, value)

\* Search descending to the wrong side.
RECURSIVE SearchFrom_WrongSide(_, _, _)
SearchFrom_WrongSide(h, cur, value) ==
    IF cur = Nil THEN Nil
    ELSE IF value = h[cur].value THEN cur
    ELSE IF value < h[cur].value THEN SearchFrom_WrongSide(h, h[cur].right, value)
    ELSE SearchFrom_WrongSide(h, h[cur].left, value)

RECURSIVE SearchFrom(_, _, _)
SearchFrom(h, cur, value) ==
    IF cur = Nil THEN Nil
    ELSE IF value = h[cur].value THEN cur
    ELSE IF value < h[cur].value THEN SearchFrom(h, h[cur].left, value)
    ELSE SearchFrom(h, h[cur].right, value)

Search(h, r, value) == SearchFrom(h, r, value)

-----------------------------------------------------------------------------
\* Rotations.  m.top of the result is the caller's slot after the call.

\* A rotation without its "Adjust subtrees" step.
AdjustSubtree_Skipped(h, child, self) == h

\* "Adjust subtrees": the child that changed sides points back to self.
AdjustSubtree(h, child, self) ==
    IF child # Nil THEN [h EXCEPT ![child].parent = self] ELSE h

\* "Adjust parent" that always takes self for the left child.
AdjustParent_AlwaysLeft(h, parent, self, that) ==
    IF parent = Nil THEN h ELSE [h EXCEPT ![parent].left = that]

\* "Adjust parent": the parent's slot that held self holds that.
AdjustParent(h, parent, self, that) ==
    IF parent = Nil THEN h
    ELSE IF h[parent].left = self
    THEN [h EXCEPT ![parent].left = that]
    ELSE [h EXCEPT ![parent].right = that]

\* LeftRotateKeys that also trades the colours of self and that.
LeftRotateKeys_TradesColors(h, self, that, parent) ==
    [h EXCEPT ![self].parent = that,
              ![self].right = h[that].left,
              ![self].color = h[that].color,
              ![that].left = self,
              ![that].parent = parent,
              ![that].color = h[self].color]

\* "Rotate key nodes" of LeftRotate.
LeftRotateKeys(h, self, that, parent) ==
    [h EXCEPT ![self].parent = that,
              ![self].right = h[that].left,
              ![that].left = self,
              ![that].parent = parent]

LeftRotateNodes(h, self, that, parent) ==
    AdjustParent(AdjustSubtree(LeftRotateKeys(h, self, that, parent), h[that].left, self),
                 parent, self, that)

LeftRotate(m, top) ==
    IF ~m.ok THEN m
    ELSE IF top = Nil \/ m.h[top].right = Nil THEN Fail(m)
    ELSE [m EXCEPT !.h = LeftRotateNodes(m.h, top, m.h[top].right,
                                         Lock(m.h, m.h[top].parent)),
                   !.top = m.h[top].right,
                   !.rots = @ + 1]

\* "Rotate key nodes" of RightRotate with "self->_left = nullptr".
RightRotateKeys_DropsInner(h, self, that, parent) ==
    [h EXCEPT ![self].left = Nil,
              ![self].parent = that,
              ![that].right = self,
              ![that].parent = parent]

\* "Rotate key nodes" of RightRotate.
RightRotateKeys(h, self, that, parent) ==
    [h EXCEPT ![self].left = h[that].right,
              ![self].parent = that,
              ![that].right = self,
              ![that].parent = parent]

RightRotateNodes(h, self, that, parent) ==
    AdjustParent(AdjustSubtree(RightRotateKeys(h, self, that, parent), h[that].right, self),
                 parent, self, that)

RightRotate(m, top) ==
    IF ~m.ok THEN m
    ELSE IF top = Nil \/ m.h[top].left = Nil THEN Fail(m)
    ELSE [m EXCEPT !.h = RightRotateNodes(m.h, top, m.h[top].left,
                                          Lock(m.h, m.h[top].parent)),
                   !.top = m.h[top].left,
                   !.rots = @ + 1]

\* The rotation's caller without its "if (change) root = ...".
SetRootIf_Never(m, change) == m

\* "if (change) root = <the rotated slot>" after a rotation.
SetRootIf(m, change) == IF m.ok /\ change THEN [m EXCEPT !.root = m.top] ELSE m

-----------------------------------------------------------------------------
\* Insertion fixup

\* InsertCase2 without "uncle->_color = BLACK".
InsertCase2_UncleStaysRed(m, parent, uncle, grand) ==
    [m EXCEPT !.h = [m.h EXCEPT ![parent].color = "BLACK", ![grand].color = "RED"]]

\* Case 2 (either side): parent and uncle become black, grand red.
\* InsertCase2 without "grand->_color = RED".
InsertCase2_GrandStaysBlack(m, parent, uncle, grand) ==
    Case([m EXCEPT !.h = [m.h EXCEPT ![parent].color = "BLACK",
                                     ![uncle].color = "BLACK"]],
         "Insert 2")

InsertCase2(m, parent, uncle, grand) ==
    Case([m EXCEPT !.h = [m.h EXCEPT ![parent].color = "BLACK",
                                     ![uncle].color = "BLACK",
                                     ![grand].color = "RED"]],
         "Insert 2")

\* InsertCase32Left without "parent->_color = BLACK".
InsertCase32Left_ParentStaysRed(m, grand) ==
    IF ~m.ok THEN m
    ELSE SetRootIf(RightRotate([m EXCEPT !.h = [m.h EXCEPT ![grand].color = "RED"]],
                               grand),
                   grand = m.root)

\* What case 3 leaves: m.top is the top of the rotation at grand, wasRoot
\* is the code's "change".
Rebuilt(m, grand, wasRoot) ==
    IF ~m.ok THEN m
    ELSE Seen(m, "Insert 3",
              Fact("top black", m.top # Nil /\ IsBlack(m.h, m.top))
                  \cup Fact("grand red", IsRed(m.h, grand))
                  \cup Fact("grand below top",
                            /\ Lock(m.h, m.h[grand].parent) = m.top
                            /\ grand \in {m.h[m.top].left, m.h[m.top].right})
                  \cup Fact("grand was root", wasRoot)
                  \cup Fact("top in root slot", m.root = m.top))

\* Case 3.2, parent (m.top) is the left child of grand.
InsertCase32Left(m, grand) ==
    IF ~m.ok THEN m
    ELSE Rebuilt(SetRootIf(RightRotate(Case([m EXCEPT !.h = [m.h EXCEPT
                                                                ![m.top].color = "BLACK",
                                                                ![grand].color = "RED"]],
                                            "Insert 3.2 left"),
                                       grand),
                           grand = m.root),
                 grand, grand = m.root)

\* Case 3, parent is the left child of grand: 3.1 turned into 3.2.
InsertCase3Left(m, cur, parent, grand) ==
    InsertCase32Left(IF cur = m.h[parent].right
                     THEN LeftRotate(Case(m, "Insert 3.1 left"), parent)
                     ELSE [m EXCEPT !.top = parent],
                     grand)

\* InsertCase32Right without the rotation at grand.
InsertCase32Right_NoRotate(m, grand) ==
    IF ~m.ok THEN m
    ELSE [m EXCEPT !.h = [m.h EXCEPT ![m.top].color = "BLACK", ![grand].color = "RED"]]

\* Case 3.2, parent (m.top) is the right child of grand.
InsertCase32Right(m, grand) ==
    IF ~m.ok THEN m
    ELSE Rebuilt(SetRootIf(LeftRotate(Case([m EXCEPT !.h = [m.h EXCEPT
                                                               ![m.top].color = "BLACK",
                                                               ![grand].color = "RED"]],
                                           "Insert 3.2 right"),
                                      grand),
                           grand = m.root),
                 grand, grand = m.root)

\* Case 3, parent is the right child of grand.
InsertCase3Right(m, cur, parent, grand) ==
    InsertCase32Right(IF cur = m.h[parent].left
                      THEN RightRotate(Case(m, "Insert 3.1 right"), parent)
                      ELSE [m EXCEPT !.top = parent],
                      grand)

RECURSIVE __Insert_Adjust(_, _)

\* After case 3 the top of the rotation is made red above two black
\* children and the fixup goes on from it.
InsertCase3_GoesOn(m) ==
    IF ~m.ok THEN m
    ELSE __Insert_Adjust([m EXCEPT !.h = [m.h EXCEPT ![m.top].color = "RED",
                                                     ![m.h[m.top].left].color = "BLACK",
                                                     ![m.h[m.top].right].color = "BLACK"]],
                         m.top)

\* InsertAdjustLeft pushing the red node up after case 3 as case 2 does.
InsertAdjustLeft_Case3GoesOn(m, cur, parent, grand, uncle) ==
    IF IsRed(m.h, uncle)
    THEN __Insert_Adjust(InsertCase2(m, parent, uncle, grand), grand)
    ELSE InsertCase3_GoesOn(InsertCase3Left(m, cur, parent, grand))

\* parent is the left child of grand.
InsertAdjustLeft(m, cur, parent, grand, uncle) ==
    IF IsRed(m.h, uncle)
    THEN __Insert_Adjust(InsertCase2(m, parent, uncle, grand), grand)
    ELSE InsertCase3Left(m, cur, parent, grand)

\* parent is the right child of grand and the uncle is taken for black.
InsertAdjustRight_NoCase2(m, cur, parent, grand, uncle) ==
    InsertCase3Right(m, cur, parent, grand)

\* parent is the right child of grand.
InsertAdjustRight(m, cur, parent, grand, uncle) ==
    IF IsRed(m.h, uncle)
    THEN __Insert_Adjust(InsertCase2(m, parent, uncle, grand), grand)
    ELSE InsertCase3Right(m, cur, parent, grand)

\* The red parent's parent is known.
InsertAdjustGrand(m, cur, parent, grand) ==
    IF grand = Nil THEN Fail(m)
    ELSE IF parent = m.h[grand].left
    THEN InsertAdjustLeft(m, cur, parent, grand, m.h[grand].right)
    ELSE InsertAdjustRight(m, cur, parent, grand, m.h[grand].left)

\* cur's parent is known.
InsertAdjustParent(m, cur, parent) ==
    IF parent = Nil
    THEN IF cur # m.root
         THEN Fail(m)
         ELSE [m EXCEPT !.h = [m.h EXCEPT ![cur].color = "BLACK"]]
    ELSE IF m.h[parent].color = "BLACK" THEN m
    ELSE InsertAdjustGrand(m, cur, parent, Lock(m.h, m.h[parent].parent))

__Insert_Adjust(m, cur) ==
    IF ~m.ok THEN m
    ELSE IF m.h[cur].color # "RED" THEN Fail(m)
    ELSE InsertAdjustParent([m EXCEPT !.calls = @ + 1], cur, Lock(m.h, m.h[cur].parent))

-----------------------------------------------------------------------------
\* Insert

\* The descent loop without its test for an equal value.
RECURSIVE InsertDescend_NoDupCheck(_, _, _, _, _)
InsertDescend_NoDupCheck(h, cur, parent, value, dup) ==
    IF cur = Nil THEN [found |-> FALSE, parent |-> parent]
    ELSE InsertDescend_NoDupCheck(h, IF value <= h[cur].value THEN h[cur].left
                                                             ELSE h[cur].right,
                                  cur, value, dup)

\* The descent loop: the node under which to attach, or a duplicate found.
RECURSIVE InsertDescend(_, _, _, _, _)
InsertDescend(h, cur, parent, value, dup) ==
    IF cur = Nil THEN [found |-> FALSE, parent |-> parent]
    ELSE IF ~dup /\ value = h[cur].value THEN [found |-> TRUE, parent |-> parent]
    ELSE InsertDescend(h, IF value <= h[cur].value THEN h[cur].left ELSE h[cur].right,
                       cur, value, dup)

\* The new node is hung on the right of a parent with an equal value.
InsertAttach_EqualGoesRight(h, cur, parent, value) ==
    IF value < h[parent].value
    THEN [Alloc(h, cur, [Node("RED", value) EXCEPT !.parent = parent])
            EXCEPT ![parent].left = cur]
    ELSE [Alloc(h, cur, [Node("RED", value) EXCEPT !.parent = parent])
            EXCEPT ![parent].right = cur]

\* The new red node cur hung under parent.
InsertAttach(h, cur, parent, value) ==
    IF value <= h[parent].value
    THEN [Alloc(h, cur, [Node("RED", value) EXCEPT !.parent = parent])
            EXCEPT ![parent].left = cur]
    ELSE [Alloc(h, cur, [Node("RED", value) EXCEPT !.parent = parent])
            EXCEPT ![parent].right = cur]

\* The tree was empty: a black root.
InsertFirst(h, a, value) ==
    [m |-> Machine(Alloc(h, a, Node("BLACK", value)), a), ret |-> TRUE]

\* The new node is linked under the duplicate's parent before the call is
\* rejected.
InsertAt_LinksBeforeReject(h, r, value, d, cur) ==
    IF d.found
    THEN [m   |-> Machine(IF d.parent # Nil
                          THEN InsertAttach(h, cur, d.parent, value)
                          ELSE h, r),
          ret |-> FALSE]
    ELSE [m   |-> __Insert_Adjust(Machine(InsertAttach(h, cur, d.parent, value), r), cur),
          ret |-> TRUE]

\* The descent has ended in d.
InsertAt(h, r, value, d, cur) ==
    IF d.found THEN [m |-> Machine(h, r), ret |-> FALSE]
    ELSE [m   |-> __Insert_Adjust(Machine(InsertAttach(h, cur, d.parent, value), r), cur),
          ret |-> TRUE]

\* Insert(root, value) on heap h with root slot r: the machine after the
\* call and the value returned.
Insert(h, r, value, dup) ==
    IF r = Nil THEN InsertFirst(h, NewAddr(h), value)
    ELSE IF ~IsRootNode(h, r) THEN [m |-> Fail(Machine(h, r)), ret |-> FALSE]
    ELSE InsertAt(h, r, value, InsertDescend(h, r, Nil, value, dup), NewAddr(h))

-----------------------------------------------------------------------------
\* Deletion fixup

RECURSIVE __Remove_Adjust(_, _)

\* RemoveCase1Left without the two recolourings.
RemoveCase1Left_NoRecolor(m, parent, sib) ==
    SetRootIf(LeftRotate(m, parent), parent = m.root)

\* Case 1, cur is the left child: the red sibling is rotated above parent.
RemoveCase1Left(m, parent, sib) ==
    SetRootIf(LeftRotate(Case([m EXCEPT !.h = [m.h EXCEPT ![parent].color = "RED",
                                                          ![sib].color = "BLACK"]],
                              "Remove 1 left"),
                         parent),
              parent = m.root)

\* Case 1 with cur the right child, rotating at parent away from cur.
RemoveCase1Right_RotatesAway(m, parent, sib) ==
    SetRootIf(LeftRotate(Case([m EXCEPT !.h = [m.h EXCEPT ![parent].color = "RED",
                                                          ![sib].color = "BLACK"]],
                              "Remove 1 right"),
                         parent),
              parent = m.root)

\* Case 1, cur is the right child.
RemoveCase1Right(m, parent, sib) ==
    SetRootIf(RightRotate(Case([m EXCEPT !.h = [m.h EXCEPT ![parent].color = "RED",
                                                           ![sib].color = "BLACK"]],
                               "Remove 1 right"),
                          parent),
              parent = m.root)

\* Case 3, cur is the left child: the red left cousin is rotated above sib;
\* top of the result is the new sib.
RemoveCase3Left(m, sib) ==
    RightRotate(Case([m EXCEPT !.h = [m.h EXCEPT ![m.h[sib].left].color = "BLACK",
                                                 ![sib].color = "RED"]],
                     "Remove 3 left"),
                sib)

\* Case 3, cur is the right child.
RemoveCase3Right(m, sib) ==
    LeftRotate(Case([m EXCEPT !.h = [m.h EXCEPT ![m.h[sib].right].color = "BLACK",
                                                ![sib].color = "RED"]],
                    "Remove 3 right"),
               sib)

\* The three recolourings of case 2; cousin is the red far cousin.
RemoveCase2Colors(h, parent, sib, cousin) ==
    [h EXCEPT ![cousin].color = "BLACK",
              ![sib].color = h[parent].color,
              ![parent].color = "BLACK"]

\* Case 2, cur is the left child: the right cousin is red.
RemoveCase2Left(m, parent, sib) ==
    SetRootIf(LeftRotate(Case([m EXCEPT !.h = RemoveCase2Colors(m.h, parent, sib,
                                                                m.h[sib].right)],
                              "Remove 2 left"),
                         parent),
              parent = m.root)

\* Case 2 with cur the right child, without "sib->_left->_color = BLACK".
RemoveCase2Right_CousinStaysRed(m, parent, sib) ==
    SetRootIf(RightRotate(Case([m EXCEPT !.h = [m.h EXCEPT
                                                    ![sib].color = m.h[parent].color,
                                                    ![parent].color = "BLACK"]],
                               "Remove 2 right"),
                          parent),
              parent = m.root)

\* Case 2, cur is the right child: the left cousin is red.
RemoveCase2Right(m, parent, sib) ==
    SetRootIf(RightRotate(Case([m EXCEPT !.h = RemoveCase2Colors(m.h, parent, sib,
                                                                 m.h[sib].left)],
                               "Remove 2 right"),
                          parent),
              parent = m.root)

\* RemoveCase41 going on to the parent as case 4.2 does.
RemoveCase41_Recurses(m, parent, sib) ==
    __Remove_Adjust([m EXCEPT !.h = [m.h EXCEPT ![sib].color = "RED",
                                                ![parent].color = "BLACK"]],
                    parent)

\* RemoveCase41 without "sib->_color = RED".
RemoveCase41_SibStaysBlack(m, parent, sib) ==
    [m EXCEPT !.h = [m.h EXCEPT ![parent].color = "BLACK"]]

\* RemoveCase41 without "parent->_color = BLACK".
RemoveCase41_ParentStaysRed(m, parent, sib) ==
    Case([m EXCEPT !.h = [m.h EXCEPT ![sib].color = "RED"]], "Remove 4.1")

\* Case 4.1: parent is red.
RemoveCase41(m, parent, sib) ==
    Case([m EXCEPT !.h = [m.h EXCEPT ![sib].color = "RED", ![parent].color = "BLACK"]],
         "Remove 4.1")

\* RemoveCase42 without "sib->_color = RED".
RemoveCase42_SibStaysBlack(m, sib) == Case(m, "Remove 4.2")

\* Case 4.2: parent is black; the recolouring before the recursive call.
RemoveCase42(m, sib) ==
    Case([m EXCEPT !.h = [m.h EXCEPT ![sib].color = "RED"]], "Remove 4.2")

\* "assert(sib != nullptr)" fails.
NoSibling(m) == Case(Fail(m), "no sibling")

\* What "Update parent and sibling" has found: parent and sib recomputed,
\* was the parent before case 1.
Updated(h, parent, was, sib) ==
    Fact("same parent", parent = was)
        \cup Fact("sibling present", sib # Nil)
        \cup Fact("sibling black", sib # Nil /\ IsBlack(h, sib))

\* cur is the left child; the sibling is m.top after case 3: cases 2 and 4.
RemoveAdjustLeftEnd(m, parent) ==
    IF ~m.ok THEN m
    ELSE IF IsRed(m.h, m.h[m.top].right) THEN RemoveCase2Left(m, parent, m.top)
    ELSE IF ~IsBlack(m.h, m.h[m.top].left) THEN Fail(m)
    ELSE IF IsRed(m.h, parent) THEN RemoveCase41(m, parent, m.top)
    ELSE __Remove_Adjust(RemoveCase42(m, m.top), parent)

\* cur is the left child; sib is black: the assert and case 3.
RemoveAdjustLeftSib(m, parent, sib) ==
    IF sib = Nil THEN NoSibling(m)
    ELSE IF IsBlack(m.h, m.h[sib].right) /\ IsRed(m.h, m.h[sib].left)
    THEN RemoveAdjustLeftEnd(RemoveCase3Left(m, sib), parent)
    ELSE RemoveAdjustLeftEnd([m EXCEPT !.top = sib], parent)

\* cur is the left child; "Update parent and sibling" after case 1: the
\* sibling.  Reading the sibling of an absent parent does not complete.  was
\* is the parent before case 1.
RemoveAdjustLeftResib(m, parent, was) ==
    IF parent = Nil THEN Fail(m)
    ELSE RemoveAdjustLeftSib(Seen(m, "Remove 1", Updated(m.h, parent, was,
                                                          m.h[parent].right)),
                             parent, m.h[parent].right)

\* cur is the left child; "Update parent and sibling" after case 1: the
\* parent.
RemoveAdjustLeftUpdate(m, cur, was) ==
    IF ~m.ok THEN m
    ELSE RemoveAdjustLeftResib(m, Lock(m.h, m.h[cur].parent), was)

\* cur is the left child of parent.
RemoveAdjustLeft(m, cur, parent, sib) ==
    IF IsRed(m.h, sib)
    THEN RemoveAdjustLeftUpdate(RemoveCase1Left(m, parent, sib), cur, parent)
    ELSE RemoveAdjustLeftSib(m, parent, sib)

\* cur is the right child; the sibling is m.top after case 3: cases 2 and 4.
RemoveAdjustRightEnd(m, parent) ==
    IF ~m.ok THEN m
    ELSE IF IsRed(m.h, m.h[m.top].left) THEN RemoveCase2Right(m, parent, m.top)
    ELSE IF ~IsBlack(m.h, m.h[m.top].right) THEN Fail(m)
    ELSE IF IsRed(m.h, parent) THEN RemoveCase41(m, parent, m.top)
    ELSE __Remove_Adjust(RemoveCase42(m, m.top), parent)

\* cur is the right child; sib is black: the assert and case 3.
RemoveAdjustRightSib(m, parent, sib) ==
    IF sib = Nil THEN NoSibling(m)
    ELSE IF IsBlack(m.h, m.h[sib].left) /\ IsRed(m.h, m.h[sib].right)
    THEN RemoveAdjustRightEnd(RemoveCase3Right(m, sib), parent)
    ELSE RemoveAdjustRightEnd([m EXCEPT !.top = sib], parent)

\* cur is the right child; "Update parent and sibling" after case 1: the
\* sibling.  Reading the sibling of an absent parent does not complete.  was
\* is the parent before case 1.
RemoveAdjustRightResib(m, parent, was) ==
    IF parent = Nil THEN Fail(m)
    ELSE RemoveAdjustRightSib(Seen(m, "Remove 1", Updated(m.h, parent, was,
                                                          m.h[parent].left)),
                             parent, m.h[parent].left)

\* cur is the right child; "Update parent and sibling" after case 1: the
\* parent.
RemoveAdjustRightUpdate(m, cur, was) ==
    IF ~m.ok THEN m
    ELSE RemoveAdjustRightResib(m, Lock(m.h, m.h[cur].parent), was)

\* cur is the right child of parent.
RemoveAdjustRight(m, cur, parent, sib) ==
    IF IsRed(m.h, sib)
    THEN RemoveAdjustRightUpdate(RemoveCase1Right(m, parent, sib), cur, parent)
    ELSE RemoveAdjustRightSib(m, parent, sib)

\* cur's parent is known.
RemoveAdjustParent(m, cur, parent) ==
    IF parent = Nil THEN (IF cur # m.root THEN Fail(m) ELSE m)
    ELSE IF cur = m.h[parent].left
    THEN RemoveAdjustLeft(m, cur, parent, m.h[parent].right)
    ELSE RemoveAdjustRight(m, cur, parent, m.h[parent].left)

__Remove_Adjust(m, cur) ==
    IF ~m.ok THEN m
    ELSE IF m.h[cur].color # "BLACK" THEN Fail(m)
    ELSE RemoveAdjustParent([m EXCEPT !.calls = @ + 1], cur, Lock(m.h, m.h[cur].parent))

-----------------------------------------------------------------------------
\* Remove

\* MinNode walking down _right instead of _left.
RECURSIVE MinNode_GoesRight(_, _)
MinNode_GoesRight(h, n) ==
    IF h[n].right # Nil THEN MinNode_GoesRight(h, h[n].right) ELSE n

\* The leftmost node below n.
RECURSIVE MinNode(_, _)
MinNode(h, n) == IF h[n].left # Nil THEN MinNode(h, h[n].left) ELSE n

\* The found node's value is copied down and the successor's value is lost.
SwapValues_CopiesDown(h, a, b) == [h EXCEPT ![b].value = h[a].value]

\* std::swap of the two values.
SwapValues(h, a, b) == [h EXCEPT ![a].value = h[b].value, ![b].value = h[a].value]

\* A Remove that returns nullptr.
NotRemoved(m) == [m |-> m, ret |-> Nil, promoted |-> Nil]

\* RemoveRootChild without "that->_color = BLACK".
RemoveRootChild_NoRecolor(m, cur, that) ==
    IF ~IsLeaf(m.h, that) THEN NotRemoved(Fail(m))
    ELSE [m |-> [m EXCEPT !.root = that,
                          !.h = [m.h EXCEPT ![that].parent = Nil,
                                            ![cur].left = Nil,
                                            ![cur].right = Nil]],
          ret |-> cur, promoted |-> that]

\* The root is removed and its only child that becomes the root.
RemoveRootChild(m, cur, that) ==
    IF ~IsLeaf(m.h, that) THEN NotRemoved(Fail(m))
    ELSE [m |-> [m EXCEPT !.root = that,
                          !.h = [m.h EXCEPT ![that].color = "BLACK",
                                            ![that].parent = Nil,
                                            ![cur].left = Nil,
                                            ![cur].right = Nil]],
          ret |-> cur, promoted |-> that]

\* cur has no parent: the root is removed.
RemoveRoot(m, cur) ==
    IF cur # m.root THEN NotRemoved(Fail(m))
    ELSE IF IsLeaf(m.h, cur)
    THEN [m |-> [m EXCEPT !.root = Nil,
                          !.h = [m.h EXCEPT ![cur].left = Nil, ![cur].right = Nil]],
          ret |-> cur, promoted |-> Nil]
    ELSE RemoveRootChild(m, cur, IF m.h[cur].left # Nil THEN m.h[cur].left
                                                        ELSE m.h[cur].right)

\* "child = x" written to both slots of parent.
SetChild_BothSlots(h, parent, cur, x) ==
    [h EXCEPT ![parent].left = x, ![parent].right = x]

\* "child = x": the slot of parent that holds cur takes x.
SetChild(h, parent, cur, x) ==
    IF h[parent].left = cur
    THEN [h EXCEPT ![parent].left = x]
    ELSE [h EXCEPT ![parent].right = x]

\* The parent's slot is emptied although cur has a subtree.
PromoteChild_DropsChild(h, parent, cur, x) == SetChild(h, parent, cur, Nil)

\* cur's only subtree takes cur's place under parent.
PromoteChild(h, parent, cur, x) ==
    [SetChild(h, parent, cur, x) EXCEPT ![x].parent = h[cur].parent]

\* The removed node keeps its parent relation.
ClearNode_KeepsParent(h, cur) ==
    [h EXCEPT ![cur].right = Nil, ![cur].left = Nil]

\* The three relations of the removed node are cleared.
ClearNode(h, cur) ==
    [h EXCEPT ![cur].right = Nil, ![cur].left = Nil, ![cur].parent = Nil]

\* cur has a parent: the parent's slot takes cur's only child, or nothing.
RemoveDetach(m, cur, parent) ==
    IF IsLeaf(m.h, cur)
    THEN [m |-> [m EXCEPT !.h = ClearNode(SetChild(m.h, parent, cur, Nil), cur)],
          ret |-> cur, promoted |-> Nil]
    ELSE IF m.h[cur].left # Nil
    THEN [m |-> [m EXCEPT !.h = ClearNode(PromoteChild(m.h, parent, cur, m.h[cur].left),
                                          cur)],
          ret |-> cur, promoted |-> m.h[cur].left]
    ELSE [m |-> [m EXCEPT !.h = ClearNode(PromoteChild(m.h, parent, cur, m.h[cur].right),
                                          cur)],
          ret |-> cur, promoted |-> m.h[cur].right]

\* "Find parent": the node is unlinked from where the fixup left it.
RemoveUnlink(m, cur, parent) ==
    IF parent = Nil THEN RemoveRoot(m, cur) ELSE RemoveDetach(m, cur, parent)

\* The fixup has run.
RemoveAdjusted(m, cur) ==
    IF ~m.ok THEN NotRemoved(m)
    ELSE RemoveUnlink(m, cur, Lock(m.h, m.h[cur].parent))

\* The fixup called from Remove has returned: what cur's parent is.
Fixed(m, cur) ==
    IF ~m.ok THEN m
    ELSE Seen(m, "fixed",
              Fact("has parent", Lock(m.h, m.h[cur].parent) # Nil)
                  \cup Fact("parent black",
                            /\ Lock(m.h, m.h[cur].parent) # Nil
                            /\ IsBlack(m.h, m.h[cur].parent)))

\* cur is the node to unlink: the fixup if it is black, then the unlinking.
RemoveNode(h, r, cur) ==
    RemoveAdjusted(IF IsBlack(h, cur)
                   THEN Fixed(__Remove_Adjust(Machine(h, r), cur), cur)
                   ELSE Machine(h, r),
                   cur)

\* minNode is unlinked without the trade of values.
RemoveSwapped_NoSwap(h, r, found, minNode) == RemoveNode(h, r, minNode)

\* The found node has two subtrees: it trades values with minNode.
RemoveSwapped(h, r, found, minNode) ==
    RemoveNode(SwapValues(h, found, minNode), r, minNode)

\* Search has returned found.
RemoveFound(h, r, found) ==
    IF found = Nil THEN NotRemoved(Machine(h, r))
    ELSE IF h[found].left # Nil /\ h[found].right # Nil
    THEN RemoveSwapped(h, r, found, MinNode(h, h[found].right))
    ELSE RemoveNode(h, r, found)

\* Remove(root, value) on heap h with root slot r: the machine after the
\* call, the node returned and the child that was promoted.
Remove(h, r, value) ==
    IF r = Nil THEN NotRemoved(Machine(h, r))
    ELSE IF ~IsRootNode(h, r) THEN NotRemoved(Fail(Machine(h, r)))
    ELSE RemoveFound(h, r, Search(h, r, value))

\* Whether Remove(root, value) takes the two-subtree branch.
RemoveSwaps(h, r, value) ==
    /\ r # Nil
    /\ Search(h, r, value) # Nil
    /\ h[Search(h, r, value)].left # Nil
    /\ h[Search(h, r, value)].right # Nil

-----------------------------------------------------------------------------
\* The caller: any sequence of Insert and Remove calls on one tree.

\* The node the previous Remove returned goes out of scope.
Dropped == IF retRemove # Nil THEN Release(heap, retRemove) ELSE heap

\* The addresses of the subtree at n, in in-order.
RECURSIVE InOrderAddrs(_, _)
InOrderAddrs(h, n) ==
    IF n = Nil THEN <<>>
    ELSE InOrderAddrs(h, h[n].left) \o <<n>> \o InOrderAddrs(h, h[n].right)

\* The elements of a sequence.
Range(s) == {s[i] : i \in 1..Len(s)}

\* The nodes still owned after a call: the tree, and the node handed to the
\* caller unless the tree still holds it.
LiveAddrs(tree, ret) ==
    IF ret # Nil /\ ret \notin Range(tree) THEN tree \o <<ret>> ELSE tree

\* The new name of address a.
Pos(live, a) ==
    IF a \in Range(live) THEN CHOOSE i \in 1..Len(live) : live[i] = a ELSE Nil

\* The code compares addresses and never orders them, so a state is kept up
\* to a renaming of addresses: after a call the nodes owned through the root
\* slot are named by their in-order position and the node handed to the
\* caller by the next address.  A node nobody owns any more is destroyed
\* (shared_ptr), and a weak_ptr to it locks to nullptr.
RenamedBy(h, r, ret, child, live) ==
    [h    |-> [i \in 1..Len(live) |->
                 [color  |-> h[live[i]].color,
                  value  |-> h[live[i]].value,
                  parent |-> Pos(live, h[live[i]].parent),
                  left   |-> Pos(live, h[live[i]].left),
                  right  |-> Pos(live, h[live[i]].right)]],
     root |-> Pos(live, r),
     ret  |-> Pos(live, ret),
     promoted |-> Pos(live, child),
     moved |-> [a \in DOMAIN h |-> Pos(live, a)]]

\* What the caller is left with after a call that ended in machine m.
After(m, ret, child) ==
    IF m.ok THEN RenamedBy(m.h, m.root, ret, child, LiveAddrs(InOrderAddrs(m.h, m.root), ret))
    ELSE [h |-> m.h, root |-> m.root, ret |-> ret, promoted |-> child,
          moved |-> [a \in DOMAIN m.h |-> a]]

\* A node with the relations a test's SetUp gives it.
Linked(color, value, parent, left, right) ==
    [color |-> color, value |-> value, parent |-> parent, left |-> left, right |-> right]

\* InsertTest::SetUp, the nodes named in in-order:
\* 11(B){2(R){1(B), 7(B){-, 8(R)}}, 14(B){-, 15(R)}}.
InsertTestHeap ==
    <<Linked("BLACK", 1, 2, Nil, Nil),
      Linked("RED", 2, 5, 1, 3),
      Linked("BLACK", 7, 2, Nil, 4),
      Linked("RED", 8, 3, Nil, Nil),
      Linked("BLACK", 11, Nil, 2, 6),
      Linked("BLACK", 14, 5, Nil, 7),
      Linked("RED", 15, 6, Nil, Nil)>>

\* "Tree root = _n11".
InsertTestRoot == 5

\* The calls of TEST_F(InsertTest, ppt).
InsertTestScript == << <<"Insert", 5>>, <<"Insert", 4>> >>

\* RemoveTest::SetUp, the nodes named in in-order:
\* 10(B){5(B){3(B), 7(R){6(B), 8(B)}}, 15(B){11(B), 17(B)}}.
RemoveTestHeap ==
    <<Linked("BLACK", 3, 2, Nil, Nil),
      Linked("BLACK", 5, 6, 1, 4),
      Linked("BLACK", 6, 4, Nil, Nil),
      Linked("RED", 7, 2, 3, 5),
      Linked("BLACK", 8, 4, Nil, Nil),
      Linked("BLACK", 10, Nil, 2, 8),
      Linked("BLACK", 11, 8, Nil, Nil),
      Linked("BLACK", 15, 6, 7, 9),
      Linked("BLACK", 17, 8, Nil, Nil)>>

\* "Tree root = _n10".
RemoveTestRoot == 6

\* The calls of TEST_F(RemoveTest, ppt).
RemoveTestScript ==
    << <<"Remove", 14>>, <<"Remove", 3>>, <<"Remove", 17>>, <<"Remove", 8>>,
       <<"Remove", 10>>, <<"Remove", 6>>, <<"Remove", 15>>, <<"Remove", 7>>,
       <<"Remove", 11>>, <<"Remove", 5>>, <<"Remove", 8>> >>

TestHeap(test) == IF test = "InsertTest" THEN InsertTestHeap ELSE RemoveTestHeap

TestRoot(test) == IF test = "InsertTest" THEN InsertTestRoot ELSE RemoveTestRoot

TestScript(test) == IF test = "InsertTest" THEN InsertTestScript ELSE RemoveTestScript

\* The values a test passes.
ScriptValues(test) == {TestScript(test)[i][2] : i \in DOMAIN TestScript(test)}

\* The values a test's SetUp puts into the tree.
SetUpValues(test) == {TestHeap(test)[a].value : a \in DOMAIN TestHeap(test)}

AllValues ==
    ValuesFor(TRUE) \cup ValuesFor(FALSE) \cup 1..FillNodes
        \cup ScriptValues("InsertTest") \cup SetUpValues("InsertTest")
        \cup ScriptValues("RemoveTest") \cup SetUpValues("RemoveTest")

\* The values of the tree at r, in in-order.
ValuesInOrder(h, r) ==
    [i \in 1..Len(InOrderAddrs(h, r)) |-> h[InOrderAddrs(h, r)[i]].value]

\* No call has been made yet.
NoCall ==
    /\ script = 0
    /\ filled = 0
    /\ op = "none"
    /\ arg = 0
    /\ retInsert = FALSE
    /\ retRemove = Nil
    /\ retSearch = Nil
    /\ failed = FALSE
    /\ rots = 0
    /\ calls = 0
    /\ cases = {}
    /\ slot = Nil
    /\ swapped = FALSE
    /\ promoted = Nil
    /\ before = <<>>
    /\ roundTrip = FALSE
    /\ moved = <<>>
    /\ seen = {}
    /\ bt = <<>>
    /\ vec = <<>>
    /\ outArg = FALSE

Init ==
    /\ heap = <<>>
    /\ root = Nil
    /\ ALLOW_DUP \in BOOLEAN
    /\ workload \in (IF ALLOW_DUP THEN {"any"} ELSE {"any", "fill"})
    /\ bag = [v \in AllValues |-> 0]
    /\ NoCall

\* Insert(root, v) has returned r.ret and left machine r.m, seen as c.
InsertReturns(v, r, c) ==
    /\ heap' = c.h
    /\ root' = c.root
    /\ failed' = ~r.m.ok
    /\ rots' = r.m.rots
    /\ calls' = r.m.calls
    /\ cases' = r.m.cases
    /\ slot' = Nil
    /\ retInsert' = r.ret
    /\ bag' = IF r.ret THEN [bag EXCEPT ![v] = @ + 1] ELSE bag
    /\ op' = "Insert"
    /\ arg' = v
    /\ retRemove' = Nil
    /\ retSearch' = Nil
    /\ swapped' = FALSE
    /\ promoted' = Nil
    /\ before' = ValuesInOrder(Dropped, root)
    /\ roundTrip' = FALSE
    /\ moved' = c.moved
    /\ seen' = r.m.seen
    /\ UNCHANGED <<ALLOW_DUP, workload, bt, vec, outArg>>

InsertDone(v, r) == InsertReturns(v, r, After(r.m, Nil, Nil))

\* The caller of any sequence inserts v, unless the tree would outgrow
\* MaxNodes.
InsertCall(v) ==
    /\ ~failed
    /\ workload = "any"
    /\ Cardinality(DOMAIN Insert(Dropped, root, v, ALLOW_DUP).m.h) <= MaxNodes
    /\ InsertDone(v, Insert(Dropped, root, v, ALLOW_DUP))
    /\ UNCHANGED <<filled, script>>

\* The filling caller inserts its next value.
FillCall ==
    /\ ~failed
    /\ workload = "fill"
    /\ filled < FillNodes
    /\ InsertDone(filled + 1, Insert(Dropped, root, filled + 1, ALLOW_DUP))
    /\ filled' = filled + 1
    /\ UNCHANGED script

\* Remove(root, v) has returned r.ret and left machine r.m, seen as c.
RemoveReturns(v, r, c) ==
    /\ heap' = c.h
    /\ root' = c.root
    /\ failed' = ~r.m.ok
    /\ rots' = r.m.rots
    /\ calls' = r.m.calls
    /\ cases' = r.m.cases
    /\ slot' = Nil
    /\ retRemove' = c.ret
    /\ promoted' = c.promoted
    /\ swapped' = (r.m.ok /\ RemoveSwaps(Dropped, root, v))
    /\ bag' = IF r.ret # Nil THEN [bag EXCEPT ![v] = @ - 1] ELSE bag
    /\ op' = "Remove"
    /\ arg' = v
    /\ retInsert' = FALSE
    /\ retSearch' = Nil
    /\ before' = ValuesInOrder(Dropped, root)
    /\ roundTrip' = (op = "Insert" /\ retInsert /\ arg = v)
    /\ moved' = c.moved
    /\ seen' = r.m.seen
    /\ UNCHANGED <<ALLOW_DUP, workload, filled, bt, vec, outArg>>

RemoveDone(v, r) == RemoveReturns(v, r, After(r.m, r.ret, r.promoted))

\* The caller of any sequence removes v.
RemoveCall(v) ==
    /\ ~failed
    /\ workload = "any"
    /\ RemoveDone(v, Remove(Dropped, root, v))
    /\ UNCHANGED script

\* The filling caller, once the tree is filled, removes v.
DrainCall(v) ==
    /\ ~failed
    /\ workload = "fill"
    /\ filled = FillNodes
    /\ RemoveDone(v, Remove(Dropped, root, v))
    /\ UNCHANGED script

\* The caller of any sequence searches for v: Search takes the root slot by
\* const reference and assigns to its local cur only.
SearchCall(v) ==
    /\ ~failed
    /\ workload = "any"
    /\ retSearch' = Search(Dropped, root, v)
    /\ heap' = Dropped
    /\ op' = "Search"
    /\ arg' = v
    /\ retInsert' = FALSE
    /\ retRemove' = Nil
    /\ rots' = 0
    /\ calls' = 0
    /\ cases' = {}
    /\ slot' = Nil
    /\ swapped' = FALSE
    /\ promoted' = Nil
    /\ before' = ValuesInOrder(Dropped, root)
    /\ roundTrip' = FALSE
    /\ moved' = [a \in DOMAIN Dropped |-> a]
    /\ seen' = {}
    /\ UNCHANGED <<root, ALLOW_DUP, workload, script, filled, failed, bag, bt, vec, outArg>>

Next ==
    \/ \E v \in ValuesFor(ALLOW_DUP) : InsertCall(v)
    \/ \E v \in ValuesFor(ALLOW_DUP) : RemoveCall(v)
    \/ FillCall
    \/ \E v \in 1..FillNodes : DrainCall(v)

Spec == Init /\ [][Next]_vars

\* The caller also searches.
NextSearch ==
    \/ Next
    \/ \E v \in ValuesFor(ALLOW_DUP) : SearchCall(v)

SpecSearch == Init /\ [][NextSearch]_vars

-----------------------------------------------------------------------------
\* The callers of test_RBTree.cpp: a tree built by hand in SetUp, then calls
\* of the test.

InitTest ==
    /\ workload \in {"InsertTest", "RemoveTest"}
    /\ heap = TestHeap(workload)
    /\ root = TestRoot(workload)
    /\ ALLOW_DUP = FALSE
    /\ bag = [v \in AllValues |-> IF v \in SetUpValues(workload) THEN 1 ELSE 0]
    /\ NoCall

\* The position in the script after the call name(v).
Followed(name, v) ==
    IF script >= 0 /\ script < Len(TestScript(workload))
          /\ TestScript(workload)[script + 1] = <<name, v>>
    THEN script + 1
    ELSE -1

TestInsert(v) ==
    /\ ~failed
    /\ workload \in {"InsertTest", "RemoveTest"}
    /\ InsertDone(v, Insert(Dropped, root, v, ALLOW_DUP))
    /\ script' = Followed("Insert", v)
    /\ UNCHANGED filled

TestRemove(v) ==
    /\ ~failed
    /\ workload \in {"InsertTest", "RemoveTest"}
    /\ RemoveDone(v, Remove(Dropped, root, v))
    /\ script' = Followed("Remove", v)

\* The caller makes calls of its test's script, in the script's order or in
\* any other.
NextTest ==
    \/ \E i \in DOMAIN TestScript(workload) :
          TestScript(workload)[i][1] = "Insert" /\ TestInsert(TestScript(workload)[i][2])
    \/ \E i \in DOMAIN TestScript(workload) :
          TestScript(workload)[i][1] = "Remove" /\ TestRemove(TestScript(workload)[i][2])

SpecTest == InitTest /\ [][NextTest]_vars

-----------------------------------------------------------------------------
\* The caller that rotates: on the tree of RotateTest, or on a tree it has
\* built with Insert, it calls LeftRotate and RightRotate on any node that
\* has the child the rotation asserts.

\* RotateTest::SetUp, the nodes named in in-order: 2{1, 4{3, 5}}, all black.
RotateTestHeap ==
    <<Linked("BLACK", 1, 2, Nil, Nil),
      Linked("BLACK", 2, Nil, 1, 4),
      Linked("BLACK", 3, 4, Nil, Nil),
      Linked("BLACK", 4, 2, 3, 5),
      Linked("BLACK", 5, 4, Nil, Nil)>>

\* "Tree tree = _n2".
RotateTestRoot == 2

\* The values the rotating caller builds its tree from.
RotateValues == IF ALLOW_DUP THEN 1..MaxDupVal ELSE 1..MaxRotNodes

InitRotate ==
    /\ workload \in {"rotate", "RotateTest"}
    /\ heap = IF workload = "RotateTest" THEN RotateTestHeap ELSE <<>>
    /\ root = IF workload = "RotateTest" THEN RotateTestRoot ELSE Nil
    /\ ALLOW_DUP \in (IF workload = "RotateTest" THEN {FALSE} ELSE BOOLEAN)
    /\ bag = [v \in AllValues |->
                IF workload = "RotateTest" /\ v \in 1..Len(RotateTestHeap) THEN 1 ELSE 0]
    /\ NoCall

\* The rotating caller builds its tree.
RotateBuild(v) ==
    /\ ~failed
    /\ workload = "rotate"
    /\ op \in {"none", "Insert"}
    /\ Cardinality(DOMAIN Insert(heap, root, v, ALLOW_DUP).m.h) <= MaxRotNodes
    /\ InsertDone(v, Insert(heap, root, v, ALLOW_DUP))
    /\ UNCHANGED <<filled, script>>

\* A rotation called on node n has left machine m; the caller passed the
\* root slot when n is the root.
Rotated(name, n, m) ==
    /\ heap' = m.h
    /\ root' = IF n = root THEN m.top ELSE root
    /\ slot' = m.top
    /\ failed' = ~m.ok
    /\ rots' = m.rots
    /\ calls' = 0
    /\ cases' = {}
    /\ op' = name
    /\ arg' = n
    /\ retInsert' = FALSE
    /\ retRemove' = Nil
    /\ retSearch' = Nil
    /\ swapped' = FALSE
    /\ promoted' = Nil
    /\ before' = ValuesInOrder(heap, root)
    /\ roundTrip' = FALSE
    /\ moved' = [a \in DOMAIN heap |-> a]
    /\ seen' = {}
    /\ UNCHANGED <<ALLOW_DUP, workload, script, filled, bag, bt, vec, outArg>>

LeftRotateCall(n) ==
    /\ ~failed
    /\ workload \in {"rotate", "RotateTest"}
    /\ heap[n].right # Nil
    /\ Rotated("LeftRotate", n, LeftRotate(Machine(heap, root), n))

RightRotateCall(n) ==
    /\ ~failed
    /\ workload \in {"rotate", "RotateTest"}
    /\ heap[n].left # Nil
    /\ Rotated("RightRotate", n, RightRotate(Machine(heap, root), n))

NextRotate ==
    \/ \E v \in RotateValues : RotateBuild(v)
    \/ \E n \in Range(InOrderAddrs(heap, root)) : LeftRotateCall(n)
    \/ \E n \in Range(InOrderAddrs(heap, root)) : RightRotateCall(n)

SpecRotate == InitRotate /\ [][NextRotate]_vars

-----------------------------------------------------------------------------
\* BinTree.h: the plain binary tree and its four traversals.

\* BinTreeNode(T value, BinTree left, BinTree right).
BinTreeNode(value, left, right) == [value |-> value, left |-> left, right |-> right]

Visit(h, n) == h[n].value

\* "if(out) out->push_back(t)".
PushBack(out, v, t) == IF out THEN Append(v, t) ELSE v

RECURSIVE PreOrder(_, _, _, _)

\* "if(_left) _left->PreOrder(out)", for either child c.
PreOrderChild(h, c, out, v) == IF c # Nil THEN PreOrder(h, c, out, v) ELSE v

PreOrder(h, n, out, v) ==
    PreOrderChild(h, h[n].right, out,
                  PreOrderChild(h, h[n].left, out, PushBack(out, v, Visit(h, n))))

RECURSIVE InOrder(_, _, _, _)

InOrderChild(h, c, out, v) == IF c # Nil THEN InOrder(h, c, out, v) ELSE v

InOrder(h, n, out, v) ==
    InOrderChild(h, h[n].right, out,
                 PushBack(out, InOrderChild(h, h[n].left, out, v), Visit(h, n)))

RECURSIVE PostOrder(_, _, _, _)

PostOrderChild(h, c, out, v) == IF c # Nil THEN PostOrder(h, c, out, v) ELSE v

\* PostOrder visiting the node before its right subtree.
PostOrder_VisitsBeforeRight(h, n, out, v) ==
    PostOrderChild(h, h[n].right, out,
                   PushBack(out, PostOrderChild(h, h[n].left, out, v), Visit(h, n)))

PostOrder(h, n, out, v) ==
    PushBack(out,
             PostOrderChild(h, h[n].right, out, PostOrderChild(h, h[n].left, out, v)),
             Visit(h, n))

\* "if(cur->_left) q.push(cur->_left.get())", for either child c.
QueuePush(q, c) == IF c # Nil THEN Append(q, c) ELSE q

\* The while loop of LevelOrder on queue q.
RECURSIVE LevelOrderLoop(_, _, _, _)
LevelOrderLoop(h, q, out, v) ==
    IF q = <<>> THEN v
    ELSE LevelOrderLoop(h,
                        QueuePush(QueuePush(Tail(q), h[Head(q)].left), h[Head(q)].right),
                        out,
                        PushBack(out, v, Visit(h, Head(q))))

LevelOrder(h, n, out, v) == LevelOrderLoop(h, <<n>>, out, v)

\* The nodes of the subtree at n.
RECURSIVE BinSubtree(_, _)
BinSubtree(h, n) ==
    IF n = Nil THEN {}
    ELSE {n} \cup BinSubtree(h, h[n].left) \cup BinSubtree(h, h[n].right)

\* The nodes that are no node's child.
BinRoots(h) == {n \in DOMAIN h : \A p \in DOMAIN h : h[p].left # n /\ h[p].right # n}

InitBin ==
    /\ Init
    /\ ~ALLOW_DUP
    /\ workload = "any"

\* What a call on the binary tree leaves alone.
BinFrame ==
    UNCHANGED <<heap, root, ALLOW_DUP, workload, script, filled, retInsert, retRemove,
                retSearch, failed, rots, calls, cases, slot, swapped, promoted, bag, before,
                roundTrip, moved, seen>>

\* SetUp: std::make_shared<Node>(value, left, right), left and right being
\* whole trees or nullptr.
MakeNode(value, left, right) ==
    /\ op \in {"none", "make_shared"}
    /\ Len(bt) < MaxBinNodes
    /\ left = Nil \/ left # right
    /\ bt' = Append(bt, BinTreeNode(value, left, right))
    /\ op' = "make_shared"
    /\ arg' = Len(bt) + 1
    /\ UNCHANGED <<vec, outArg>>
    /\ BinFrame

\* "res = {}".
ClearVec ==
    /\ vec # <<>>
    /\ vec' = <<>>
    /\ op' = "clear"
    /\ arg' = 0
    /\ UNCHANGED <<bt, outArg>>
    /\ BinFrame

\* A traversal from node n has left the vector as v.
Traversed(name, n, out, v) ==
    /\ Len(vec) <= MaxPrior
    /\ vec' = v
    /\ outArg' = out
    /\ op' = name
    /\ arg' = n
    /\ UNCHANGED bt
    /\ BinFrame

PreOrderCall(n, out) == Traversed("PreOrder", n, out, PreOrder(bt, n, out, vec))

InOrderCall(n, out) == Traversed("InOrder", n, out, InOrder(bt, n, out, vec))

PostOrderCall(n, out) == Traversed("PostOrder", n, out, PostOrder(bt, n, out, vec))

LevelOrderCall(n, out) == Traversed("LevelOrder", n, out, LevelOrder(bt, n, out, vec))

NextBin ==
    \/ \E value \in 1..MaxBinVal, left, right \in BinRoots(bt) \cup {Nil} :
          MakeNode(value, left, right)
    \/ ClearVec
    \/ \E n \in DOMAIN bt, out \in BOOLEAN : PreOrderCall(n, out)
    \/ \E n \in DOMAIN bt, out \in BOOLEAN : InOrderCall(n, out)
    \/ \E n \in DOMAIN bt, out \in BOOLEAN : PostOrderCall(n, out)
    \/ \E n \in DOMAIN bt, out \in BOOLEAN : LevelOrderCall(n, out)

SpecBin == InitBin /\ [][NextBin]_vars

-----------------------------------------------------------------------------
\* Properties of the tree the caller holds

\* The nodes of the tree.
TreeAddrs == Range(InOrderAddrs(heap, root))

\* The values of the tree, in in-order.
InOrderValues == ValuesInOrder(heap, root)

\* The values of the subtree at n.
SubtreeValues(h, n) == {h[a].value : a \in Range(InOrderAddrs(h, n))}

\* The number of nodes of the tree that hold v.
Count(v) == Cardinality({a \in TreeAddrs : heap[a].value = v})

\* The black height of the subtree at n when left and right have black
\* heights l and r; -1 when two paths differ.
JoinBlackHeight(l, r, black) ==
    IF l = -1 \/ r = -1 \/ l # r THEN -1 ELSE IF black THEN l + 1 ELSE l

RECURSIVE BlackHeight(_, _)
BlackHeight(h, n) ==
    IF n = Nil THEN 0
    ELSE JoinBlackHeight(BlackHeight(h, h[n].left), BlackHeight(h, h[n].right),
                         h[n].color = "BLACK")

NoRedRed ==
    \A n \in TreeAddrs :
        IsRed(heap, n) => IsBlack(heap, heap[n].left) /\ IsBlack(heap, heap[n].right)

BSTOrder ==
    \A n \in TreeAddrs :
        /\ \A v \in SubtreeValues(heap, heap[n].left) :
              IF ALLOW_DUP THEN v <= heap[n].value ELSE v < heap[n].value
        /\ \A v \in SubtreeValues(heap, heap[n].right) : v >= heap[n].value

InOrderSorted ==
    \A i, j \in DOMAIN InOrderValues : i < j => InOrderValues[i] <= InOrderValues[j]

RefSymmetry ==
    /\ root # Nil => Lock(heap, heap[root].parent) = Nil
    /\ \A n \in TreeAddrs \ {root} :
          /\ Lock(heap, heap[n].parent) # Nil
          /\ \/ heap[Lock(heap, heap[n].parent)].left = n
             \/ heap[Lock(heap, heap[n].parent)].right = n

\* C1: after every Insert or Remove call that returns, under either
\* duplicate policy, no red node of the tree has a red child.
C1_NoRedRed == ~failed => NoRedRed

\* A Remove with duplicates allowed has rotated and left a red inner node.
C1_Witness ==
    /\ ~failed /\ ALLOW_DUP /\ op = "Remove" /\ retRemove # Nil /\ rots >= 1
    /\ \E n \in TreeAddrs : IsRed(heap, n) /\ ~IsLeaf(heap, n)

\* C2: after every Insert or Remove call that returns, all paths from any
\* node down to an absent child hold the same number of black nodes.
C2_BlackHeight == ~failed => BlackHeight(heap, root) # -1

\* A Remove ran the fixup on a black node and then promoted its red child,
\* which is still red and is not the root.
C2_Witness ==
    /\ ~failed /\ op = "Remove" /\ retRemove # Nil /\ calls >= 1
    /\ promoted # Nil /\ promoted # root /\ IsRed(heap, promoted)

\* C3: after every Insert or Remove call that returns, every node's left
\* subtree holds values <= its value (< without duplicates) and its right
\* subtree values >= its value, and the in-order traversal is non-decreasing.
C3_BSTOrder == ~failed => (BSTOrder /\ InOrderSorted)

\* A two-child Remove has swapped values in a tree with duplicates in which
\* some node's right child holds a value equal to the node's.
C3_Witness ==
    /\ ~failed /\ ALLOW_DUP /\ op = "Remove" /\ retRemove # Nil /\ swapped
    /\ \E n \in TreeAddrs :
          heap[n].right # Nil /\ heap[heap[n].right].value = heap[n].value

\* C4: after every Insert or Remove call that returns, the tree is empty or
\* its root is black.
C4_RootBlack == ~failed => (root = Nil \/ heap[root].color = "BLACK")

\* A Remove took the root away and its only child became the root.
C4_Witness ==
    /\ ~failed /\ op = "Remove" /\ retRemove # Nil
    /\ root # Nil /\ promoted = root

\* C5: after every Insert or Remove call that returns, the node in the root
\* slot has no parent and every other node of the tree has a parent one of
\* whose child slots holds that node.
C5_RefSymmetry == ~failed => RefSymmetry

\* An Insert into a two-node tree has rotated at the root: the root slot
\* holds another node than before.
C5_Witness ==
    /\ ~failed /\ op = "Insert" /\ retInsert /\ rots >= 1
    /\ Cardinality(TreeAddrs) = 3

\* C6: the multiset of values in the tree is the multiset of accepted
\* Inserts minus one occurrence per successful Remove, and the tree is
\* empty exactly when that multiset is.
C6_BagMatches ==
    ~failed =>
        /\ \A v \in AllValues : bag[v] = Count(v)
        /\ root = Nil <=> \A v \in AllValues : bag[v] = 0

\* A Remove took one occurrence of a value away and left another.
C6_Witness ==
    /\ ~failed /\ ALLOW_DUP /\ op = "Remove" /\ retRemove # Nil
    /\ bag[arg] >= 1 /\ Cardinality(TreeAddrs) >= 4

\* C7: Insert returns false exactly when duplicates are disallowed and the
\* value is in the tree at the call.
C7_InsertReturn ==
    [][(op' = "Insert" /\ ~failed') =>
          (retInsert' = FALSE <=>
              (~ALLOW_DUP /\ \E a \in TreeAddrs : heap[a].value = arg'))]_vars

\* An Insert of a present value has been rejected.
C7_Witness ==
    /\ ~failed /\ ~ALLOW_DUP /\ op = "Insert" /\ ~retInsert
    /\ \E a \in TreeAddrs : heap[a].value = arg

\* C8: without duplicates, a rejected Insert leaves the root slot and every
\* node (relations, colour, value) as they were.
C8_RejectUnchanged ==
    [][(op' = "Insert" /\ ~failed' /\ ~ALLOW_DUP /\ ~retInsert') =>
          (root' = root /\ heap' = Dropped)]_vars

\* An Insert has been rejected on a tree of at least three nodes, one red.
C8_Witness ==
    /\ ~failed /\ ~ALLOW_DUP /\ op = "Insert" /\ ~retInsert
    /\ Cardinality(TreeAddrs) >= 3
    /\ \E n \in TreeAddrs : IsRed(heap, n)

\* C9: Remove returns nullptr exactly when no node of the tree holds the
\* value (an empty tree included), and then the root slot and every node
\* are as they were.
C9_RemoveAbsent ==
    [][(op' = "Remove" /\ ~failed') =>
          /\ retRemove' = Nil <=> ~\E a \in TreeAddrs : heap[a].value = arg'
          /\ retRemove' = Nil => (root' = root /\ heap' = Dropped)]_vars

\* A Remove of an absent value on a tree that is not empty.
C9_Witness ==
    /\ ~failed /\ op = "Remove" /\ retRemove = Nil /\ root # Nil

\* C10: the node a Remove returns holds the requested value, has its three
\* relations cleared, is not the root, is not in the tree, and no other
\* node refers to it.
C10_Detached ==
    (~failed /\ op = "Remove" /\ retRemove # Nil) =>
        /\ heap[retRemove].value = arg
        /\ Lock(heap, heap[retRemove].parent) = Nil
        /\ heap[retRemove].left = Nil
        /\ heap[retRemove].right = Nil
        /\ retRemove # root
        /\ retRemove \notin TreeAddrs
        /\ \A n \in DOMAIN heap \ {retRemove} :
              /\ heap[n].parent # retRemove
              /\ heap[n].left # retRemove
              /\ heap[n].right # retRemove

\* A two-child Remove swapped values and unlinked a successor that had a
\* right child.
C10_Witness ==
    /\ ~failed /\ op = "Remove" /\ retRemove # Nil /\ swapped /\ promoted # Nil

\* The nodes above n, through the parent relation.
RECURSIVE ProperAncestors(_, _)
ProperAncestors(h, n) ==
    IF Lock(h, h[n].parent) = Nil THEN {}
    ELSE {Lock(h, h[n].parent)} \cup ProperAncestors(h, Lock(h, h[n].parent))

\* C11: Search changes neither the root slot nor any node; it returns
\* nullptr exactly when no node of the tree holds the value, and otherwise a
\* node of the tree that holds the value and has no node holding it above.
C11_Search ==
    [][op' = "Search" =>
          /\ root' = root
          /\ heap' = Dropped
          /\ retSearch' = Nil <=> ~\E a \in TreeAddrs : heap[a].value = arg'
          /\ retSearch' # Nil =>
                /\ retSearch' \in TreeAddrs
                /\ heap'[retSearch'].value = arg'
                /\ \A a \in ProperAncestors(heap', retSearch') :
                      heap'[a].value # arg']_vars

\* A Search with duplicates allowed has returned a node that has the value
\* in its left and in its right subtree.
C11_Witness ==
    /\ op = "Search" /\ ALLOW_DUP /\ retSearch # Nil
    /\ arg \in SubtreeValues(heap, heap[retSearch].left)
    /\ arg \in SubtreeValues(heap, heap[retSearch].right)

\* C12: a Remove of v that immediately follows an accepted Insert of v
\* leaves the in-order value sequence the tree had before that Insert.
C12_RoundTrip ==
    [][(op = "Insert" /\ retInsert /\ ~failed
            /\ op' = "Remove" /\ arg' = arg /\ ~failed') =>
          InOrderValues' = before]_vars

\* The Remove of a round trip found the value in a node with two subtrees,
\* rotated, and left a tree of at least five nodes.
C12_Witness ==
    /\ ~failed /\ op = "Remove" /\ roundTrip /\ retRemove # Nil
    /\ swapped /\ rots >= 1 /\ Cardinality(TreeAddrs) >= 5

\* The number of nodes on the longest path from n down to a leaf.
RECURSIVE Height(_, _)
Height(h, n) ==
    IF n = Nil THEN 0
    ELSE IF Height(h, h[n].left) >= Height(h, h[n].right)
    THEN 1 + Height(h, h[n].left)
    ELSE 1 + Height(h, h[n].right)

\* C13: after every Insert or Remove call that returns, a tree of n nodes
\* has height h with 2^h <= (n+1)^2, that is h <= 2*log2(n+1).
C13_HeightBound ==
    ~failed =>
        2 ^ Height(heap, root) <= (Cardinality(TreeAddrs) + 1) * (Cardinality(TreeAddrs) + 1)

\* A Remove has left a tree of height four with the fewest nodes a
\* red-black tree of that height can have.
C13_Witness ==
    /\ ~failed /\ op = "Remove" /\ retRemove # Nil
    /\ Height(heap, root) = 4 /\ Cardinality(TreeAddrs) = 6

\* The nodes on the path from n up to the root, n included.
PathLen(h, n) == 1 + Cardinality(ProperAncestors(h, n))

\* The length of the path from the node Insert(r, value) adds up to the
\* root; 0 when the call adds none.
InsertPath(h, r, value, dup) ==
    IF r = Nil THEN 1
    ELSE IF InsertDescend(h, r, Nil, value, dup).found THEN 0
    ELSE 1 + PathLen(h, InsertDescend(h, r, Nil, value, dup).parent)

\* The node Remove(r, value) unlinks when Search has returned found.
RemovedNode(h, found) ==
    IF h[found].left # Nil /\ h[found].right # Nil THEN MinNode(h, h[found].right)
    ELSE found

\* The length of the path from the node Remove(r, value) unlinks up to the
\* root; 0 when the call unlinks none.
RemovePath(h, r, value) ==
    IF r = Nil \/ Search(h, r, value) = Nil THEN 0
    ELSE PathLen(h, RemovedNode(h, Search(h, r, value)))

\* C14: every call returns after at most as many fixup invocations as there
\* are nodes on the path from the added or unlinked node up to the root; the
\* insertion fixup, which moves up two levels per invocation, needs at most
\* half as many, rounded up.
C14_FixupCalls ==
    [][/\ (op' = "Insert" /\ ~failed') =>
             /\ calls' <= InsertPath(Dropped, root, arg', ALLOW_DUP)
             /\ 2 * calls' <= InsertPath(Dropped, root, arg', ALLOW_DUP) + 1
       /\ (op' = "Remove" /\ ~failed') =>
             calls' <= RemovePath(Dropped, root, arg')]_vars

\* A Remove whose fixup has moved up to the parent twice.
C14_Witness ==
    /\ ~failed /\ op = "Remove" /\ retRemove # Nil /\ calls >= 3

\* The red-black properties and referential symmetry together.
Structural ==
    /\ NoRedRed
    /\ BlackHeight(heap, root) # -1
    /\ BSTOrder /\ InOrderSorted
    /\ root = Nil \/ heap[root].color = "BLACK"
    /\ RefSymmetry

\* C15: on the InsertTest tree, Insert 5 returns true and leaves the
\* structural invariants holding; Insert 4 after it returns true after a
\* recolouring and two rotations that put 7 in the root slot, and leaves the
\* structural invariants holding.
C15_InsertTest ==
    /\ (workload = "InsertTest" /\ script = 1) =>
          /\ ~failed /\ retInsert /\ Structural
          /\ InOrderValues = <<1, 2, 5, 7, 8, 11, 14, 15>>
    /\ (workload = "InsertTest" /\ script = 2) =>
          /\ ~failed /\ retInsert /\ Structural
          /\ InOrderValues = <<1, 2, 4, 5, 7, 8, 11, 14, 15>>
          /\ calls = 2 /\ rots = 2
          /\ heap[root].value = 7

\* TEST_F(InsertTest, ppt) has made its two calls.
C15_Witness ==
    workload = "InsertTest" /\ script = 2 /\ op = "Insert" /\ arg = 4

\* The values the RemoveTest script has removed after k calls.
RemovedBy(k) == {RemoveTestScript[i][2] : i \in 1..k}

\* C16: on the RemoveTest tree, Remove 14 returns nullptr; Remove 3, 17, 8,
\* 10, 6, 15, 7, 11, 5 each return a node and leave the structural invariants
\* holding and the other values in the tree; the second Remove 8 returns
\* nullptr on the empty tree.
C16_RemoveTest ==
    /\ (workload = "RemoveTest" /\ script = 1) =>
          ~failed /\ retRemove = Nil /\ Structural /\ Cardinality(TreeAddrs) = 9
    /\ (workload = "RemoveTest" /\ script \in 2..10) =>
          /\ ~failed /\ retRemove # Nil /\ Structural
          /\ SubtreeValues(heap, root) = SetUpValues("RemoveTest") \ RemovedBy(script)
          /\ Cardinality(TreeAddrs) = 10 - script
    /\ (workload = "RemoveTest" /\ script = 11) =>
          ~failed /\ retRemove = Nil /\ root = Nil

\* TEST_F(RemoveTest, ppt) has made its eleven calls.
C16_Witness ==
    workload = "RemoveTest" /\ script = 11 /\ op = "Remove" /\ arg = 8

\* x is in the left and y in the right subtree of some node of the subtree
\* at top.
LeftOf(h, top, x, y) ==
    \E c \in BinSubtree(h, top) :
        x \in BinSubtree(h, h[c].left) /\ y \in BinSubtree(h, h[c].right)

\* x is above y.
Above(h, x, y) == x # y /\ y \in BinSubtree(h, x)

\* The number of edges from top down to x.
RECURSIVE BinDepth(_, _, _)
BinDepth(h, top, x) ==
    IF x = top THEN 0
    ELSE IF x \in BinSubtree(h, h[top].left) THEN 1 + BinDepth(h, h[top].left, x)
    ELSE 1 + BinDepth(h, h[top].right, x)

\* x comes before y in the named order of the subtree at top: root-left-right,
\* left-root-right, left-right-root, or level by level and left before right.
Precedes(name, h, top, x, y) ==
    CASE name = "PreOrder" -> Above(h, x, y) \/ LeftOf(h, top, x, y)
      [] name = "InOrder" ->
            \/ x \in BinSubtree(h, h[y].left)
            \/ y \in BinSubtree(h, h[x].right)
            \/ LeftOf(h, top, x, y)
      [] name = "PostOrder" -> Above(h, y, x) \/ LeftOf(h, top, x, y)
      [] name = "LevelOrder" ->
            \/ BinDepth(h, top, x) < BinDepth(h, top, y)
            \/ BinDepth(h, top, x) = BinDepth(h, top, y) /\ LeftOf(h, top, x, y)

\* The place of x in the named order: one more than the nodes before it.
Rank(name, h, top, x) ==
    1 + Cardinality({y \in BinSubtree(h, top) : Precedes(name, h, top, y, x)})

\* Every node of the subtree once, in the named order.
Arranged(name, h, top) ==
    [i \in 1..Cardinality(BinSubtree(h, top)) |->
        h[CHOOSE x \in BinSubtree(h, top) : Rank(name, h, top, x) = i].value]

\* C17: each traversal of a binary tree leaves the tree as it was and
\* appends to the vector the value of every node of the receiver's subtree
\* once, in its order: root-left-right, left-root-right, left-right-root,
\* or level by level with left before right.
C17_Traversals ==
    [][op' \in {"PreOrder", "InOrder", "PostOrder", "LevelOrder"} =>
          /\ bt' = bt
          /\ vec' = IF outArg' THEN vec \o Arranged(op', bt, arg') ELSE vec]_vars

\* LevelOrder on the root of a four-node tree in which a right child comes
\* before a deeper left grandchild has appended to a vector that was not
\* empty.
C17_Witness ==
    /\ op = "LevelOrder" /\ outArg
    /\ Cardinality(BinSubtree(bt, arg)) = 4
    /\ Len(vec) = 5
    /\ bt[arg].left # Nil /\ bt[arg].right # Nil
    /\ bt[bt[arg].left].left # Nil

\* C20: in no Remove does the deletion fixup find the sibling of a black
\* node that has a parent absent, neither on entry nor after the rotation of
\* the red-sibling case has made another node the sibling: the assert on the
\* sibling never fails.
C20_SiblingPresent == "no sibling" \notin cases

\* A Remove whose fixup met a red sibling, rotated it up and went on with
\* the new sibling into case 3.
C20_Witness ==
    /\ ~failed /\ op = "Remove" /\ retRemove # Nil
    /\ "Remove 1 right" \in cases
    /\ "Remove 3 right" \in cases

\* C18: a rotation changes no node's colour and no node's value, leaves
\* the in-order value sequence of the tree as it was and so keeps the order
\* of a search tree.
C18_RotateFrame ==
    [][op' \in {"LeftRotate", "RightRotate"} =>
          /\ DOMAIN heap' = DOMAIN heap
          /\ \A a \in DOMAIN heap :
                heap'[a].color = heap[a].color /\ heap'[a].value = heap[a].value
          /\ InOrderValues' = InOrderValues
          /\ BSTOrder => BSTOrder']_vars

\* LeftRotate at the root of a tree with a red node has moved the right
\* child's left subtree under the old root.
C18_Witness ==
    /\ op = "LeftRotate" /\ slot = root
    /\ heap[arg].right # Nil
    /\ \E n \in TreeAddrs : IsRed(heap, n)

\* What C19 says of a rotation of self with child that under parent, where
\* inner is the subtree of that on self's side.
RotatedAs(self, that, parent, inner) ==
    /\ parent # Nil /\ heap[parent].left = self => heap'[parent].left = that
    /\ parent # Nil /\ heap[parent].right = self => heap'[parent].right = that
    /\ Lock(heap', heap'[that].parent) = parent
    /\ heap'[self].parent = that
    /\ inner # Nil => heap'[inner].parent = self
    /\ slot' = that
    /\ root' = IF self = root THEN that ELSE root
    /\ RefSymmetry'

\* C19: LeftRotate on self with right child that puts that into self's
\* place under self's parent and into the slot the caller passed, makes
\* self the left child of that and the former left subtree of that the right
\* subtree of self, each with its parent relation, and referential symmetry
\* holds again; RightRotate is the mirror image.
C19_RotateResult ==
    [][/\ op' = "LeftRotate" =>
             /\ RotatedAs(arg', heap[arg'].right, Lock(heap, heap[arg'].parent),
                          heap[heap[arg'].right].left)
             /\ heap'[heap[arg'].right].left = arg'
             /\ heap'[arg'].right = heap[heap[arg'].right].left
             /\ heap'[arg'].left = heap[arg'].left
             /\ heap'[heap[arg'].right].right = heap[heap[arg'].right].right
       /\ op' = "RightRotate" =>
             /\ RotatedAs(arg', heap[arg'].left, Lock(heap, heap[arg'].parent),
                          heap[heap[arg'].left].right)
             /\ heap'[heap[arg'].left].right = arg'
             /\ heap'[arg'].left = heap[heap[arg'].left].right
             /\ heap'[arg'].right = heap[arg'].right
             /\ heap'[heap[arg'].left].left = heap[heap[arg'].left].left]_vars

\* RightRotate on a right child that is not the root has moved a subtree
\* from its left child to it.
C19_Witness ==
    /\ op = "RightRotate" /\ slot # root
    /\ heap[arg].left # Nil
    /\ heap[heap[slot].parent].right = slot

\* C21: no assert of RBTree.h fails in any sequence of Insert and Remove
\* calls that starts from an empty tree: a rotation is given a node with
\* the child it lifts, the insertion fixup finds a grandparent above a red
\* parent, each fixup is entered with a node of the colour it asserts, a
\* node without a parent met by a fixup or by Remove is the root, a root
\* removed with one child has a leaf as that child, and the near cousin is
\* black where the deletion fixup asserts it.
C21_NoAssertFails == workload \in {"any", "fill"} => ~failed

\* A Remove of a black node whose fixup went up a level from the case of
\* two black cousins and rotated there.
C21_Witness ==
    /\ op = "Remove" /\ retRemove # Nil
    /\ "Remove 4.2" \in cases
    /\ calls >= 2 /\ rots >= 1

\* Where the last call has left address a (Nil stays Nil).
Mv(mv, a) == IF a = Nil THEN Nil ELSE mv[a]

\* The address that the last call has moved to x.
Origin(mv, x) == CHOOSE a \in DOMAIN mv : mv[a] = x

\* Node a of heap h is still there in heap g, with its colour and with its
\* relations but for a child slot that held k, which is empty.
KeptButFor(h, g, mv, a, k) ==
    /\ mv[a] # Nil
    /\ g[mv[a]].color = h[a].color
    /\ g[mv[a]].parent = Mv(mv, h[a].parent)
    /\ g[mv[a]].left = (IF h[a].left = k THEN Nil ELSE Mv(mv, h[a].left))
    /\ g[mv[a]].right = (IF h[a].right = k THEN Nil ELSE Mv(mv, h[a].right))

\* The Remove that ends in the primed state has unlinked leaf k without a
\* fixup and has touched nothing but the slot that held k, values aside.
RedLeafUnlinked(k) ==
    /\ IsLeaf(Dropped, k)
    /\ promoted' = Nil
    /\ calls' = 0 /\ rots' = 0
    /\ root' = Mv(moved', root)
    /\ \A a \in DOMAIN Dropped \ {k} : KeptButFor(Dropped, heap', moved', a, k)

\* The Remove that ends in the primed state has returned a red node.
RedRemoved == op' = "Remove" /\ retRemove' # Nil /\ heap'[retRemove'].color = "RED"

\* C22 as the specification states it: when the node that Remove unlinks is
\* red, it is a leaf, no fixup runs, and the call changes no colour, no
\* value and no relation of a node that stays in the tree, other than
\* emptying the child slot of the removed node's parent.
C22_RedRemovedNoValue ==
    [][RedRemoved =>
          /\ RedLeafUnlinked(Origin(moved', retRemove'))
          /\ \A a \in DOMAIN Dropped \ {Origin(moved', retRemove')} :
                heap'[moved'[a]].value = Dropped[a].value]_vars

\* C22, amended: when the node that Remove unlinks is red, it is a leaf, no
\* fixup runs, and the call changes no colour and no relation of a node
\* that stays in the tree, other than emptying the child slot of the removed
\* node's parent, and no value other than that of the found node when
\* it has two subtrees, which takes the value the removed node had.
C22_RedRemoved ==
    [][RedRemoved =>
          /\ RedLeafUnlinked(Origin(moved', retRemove'))
          /\ \A a \in DOMAIN Dropped \ {Origin(moved', retRemove')} :
                heap'[moved'[a]].value =
                    IF swapped' /\ a = Search(Dropped, root, arg')
                    THEN Dropped[Origin(moved', retRemove')].value
                    ELSE Dropped[a].value]_vars

\* A Remove of a value held by a node with two subtrees has unlinked the
\* red leaf that followed it in in-order, which has a sibling.
C22_Witness ==
    /\ ~failed /\ op = "Remove" /\ retRemove # Nil
    /\ heap[retRemove].color = "RED"
    /\ swapped /\ calls = 0
    /\ Cardinality(TreeAddrs) >= 4

\* The value that node a of the tree holds after Remove has found node f
\* in heap h: its own, or when it is f and f has two subtrees the value
\* of the leftmost node of f's right subtree.
ValueAfterRemove(h, f, a) ==
    IF a = f /\ h[f].left # Nil /\ h[f].right # Nil
    THEN h[MinNode(h, h[f].right)].value
    ELSE h[a].value

\* What C23 says of a Remove that has found node f and unlinked node k.
RemoveValues(h, f, k) ==
    /\ \A a \in DOMAIN h \ {k} :
          moved'[a] # Nil /\ heap'[moved'[a]].value = ValueAfterRemove(h, f, a)
    /\ h[k].left = Nil \/ h[k].right = Nil
    /\ (h[f].left = Nil \/ h[f].right = Nil) => k = f

\* C23: only the two-subtree swap changes a value.  Insert changes the
\* value of no node that was in the tree; Remove changes the value of at
\* most one node that stays, the found node when it has two subtrees, which
\* takes the value of the leftmost node of its right subtree; the node
\* unlinked has at most one subtree and is the found node when that has
\* fewer than two.
C23_ValuesChange ==
    [][/\ (op' = "Insert" /\ ~failed') =>
             \A a \in DOMAIN Dropped :
                moved'[a] # Nil /\ heap'[moved'[a]].value = Dropped[a].value
       /\ (op' = "Remove" /\ ~failed' /\ retRemove' # Nil) =>
             RemoveValues(Dropped, Search(Dropped, root, arg'),
                          Origin(moved', retRemove'))
       /\ (op' = "Remove" /\ ~failed' /\ retRemove' = Nil) =>
             \A a \in DOMAIN Dropped :
                moved'[a] # Nil /\ heap'[moved'[a]].value = Dropped[a].value]_vars

\* A Remove has swapped the found node's value with its successor's and
\* rotated in the fixup for the black successor it unlinked.
C23_Witness ==
    /\ ~failed /\ op = "Remove" /\ retRemove # Nil
    /\ swapped /\ rots >= 1
    /\ heap[retRemove].color = "BLACK"

\* The cases of the deletion fixup for a black sibling.
BlackSiblingCases ==
    {"Remove 2 left", "Remove 2 right", "Remove 3 left", "Remove 3 right",
     "Remove 4.1", "Remove 4.2"}

\* C24: in the red-sibling case of the deletion fixup, after the
\* recolouring and the rotation at parent toward cur's side, the parent read
\* again from cur is the parent cur had and the sibling read again from it
\* is a node that is there and black, so that a black-sibling case follows.
C24_RedSibling ==
    (op = "Remove" /\ cases \cap {"Remove 1 left", "Remove 1 right"} # {}) =>
        /\ ~failed
        /\ \E o \in seen : o.at = "Remove 1"
        /\ \A o \in seen :
              o.at = "Remove 1" =>
                  o.facts = {"same parent", "sibling present", "sibling black"}
        /\ cases \cap BlackSiblingCases # {}

\* A Remove whose fixup met a red sibling on the right of cur and went on
\* into the case of two black cousins under the parent it had made red.
C24_Witness ==
    /\ ~failed /\ op = "Remove" /\ retRemove # Nil
    /\ "Remove 1 left" \in cases
    /\ "Remove 4.1" \in cases

\* C25: in the case of the insertion fixup with a red parent and a black
\* uncle, the rotation at the grandparent (after the rotation at the parent,
\* if that was needed) leaves a subtree whose top is black with the former
\* grandparent red below it; the fixup does not recurse after it; and when
\* the grandparent was the root, the root slot holds the rotation's top.
C25_InsertCase3 ==
    (op = "Insert" /\ cases \cap {"Insert 3.2 left", "Insert 3.2 right"} # {}) =>
        /\ ~failed
        /\ \E o \in seen : o.at = "Insert 3"
        /\ \A o \in seen :
              o.at = "Insert 3" =>
                  /\ {"top black", "grand red", "grand below top"} \subseteq o.facts
                  /\ "grand was root" \in o.facts => "top in root slot" \in o.facts
                  /\ "grand was root" \notin o.facts => "top in root slot" \notin o.facts
                  /\ o.calls = calls

\* An Insert whose fixup went up from a red uncle and then rotated at the
\* root, the grandparent of the node it had gone up to.
C25_Witness ==
    /\ ~failed /\ op = "Insert" /\ retInsert
    /\ calls >= 2
    /\ \E o \in seen : o.at = "Insert 3" /\ "grand was root" \in o.facts

\* The left-right mirror image of heap h, every value negated.
MirrorHeap(h) ==
    [a \in DOMAIN h |->
        [color  |-> h[a].color,
         value  |-> 0 - h[a].value,
         parent |-> h[a].parent,
         left   |-> h[a].right,
         right  |-> h[a].left]]

\* The tree at r in heap h, its nodes named by their in-order position.
Canon(h, r) == After(Machine(h, r), Nil, Nil)

\* The trees at r in h and at q in g are the same tree.
SameTree(h, r, g, q) ==
    /\ Canon(h, r).h = Canon(g, q).h
    /\ Canon(h, r).root = Canon(g, q).root

\* Insert, returning r on the mirror image of the tree before the call, has
\* done what the call did, mirrored.
MirroredInsert(r) ==
    /\ r.ret = retInsert'
    /\ r.m.ok = ~failed'
    /\ SameTree(r.m.h, r.m.root, MirrorHeap(heap'), root')

\* C26: with ALLOW_DUP false, Insert is mirror-symmetric.  Inserting the
\* negated value into the mirror image of a tree gives the mirror image of
\* what inserting the value into the tree gives, colours included, and
\* returns the same; so the negated values inserted into an empty tree give,
\* after every step, the mirror image of the tree the values give.
C26_InsertMirror ==
    [][(op' = "Insert" /\ ~ALLOW_DUP) =>
          MirroredInsert(Insert(MirrorHeap(Dropped), root, 0 - arg', FALSE))]_vars

\* An Insert without duplicates whose fixup went up from a red uncle and
\* rotated at a grandparent whose right child was the red parent.
C26_Witness ==
    /\ ~failed /\ ~ALLOW_DUP /\ op = "Insert" /\ retInsert
    /\ "Insert 2" \in cases
    /\ "Insert 3.2 right" \in cases

\* Machine b is what the deletion fixup leaves on the mirror image when it
\* leaves a on the tree: the mirror image of the heap, the same root slot
\* and as many rotations and invocations.
MirroredFixup(a, b) ==
    /\ b.ok = a.ok
    /\ b.h = MirrorHeap(a.h)
    /\ b.root = a.root
    /\ b.rots = a.rots
    /\ b.calls = a.calls

\* C27: the deletion fixup is mirror-symmetric.  On each black node c of a
\* red-black tree, the fixup run on c in the mirror image of the tree leaves
\* the mirror image of what it leaves when run on c in the tree, with the
\* same colours and the same node in the root slot.
C27_RemoveAdjustMirror ==
    ~failed =>
        \A c \in TreeAddrs :
            IsBlack(heap, c) =>
                MirroredFixup(__Remove_Adjust(Machine(heap, root), c),
                              __Remove_Adjust(Machine(MirrorHeap(heap), root), c))

\* A tree with a black node on which the fixup goes through the red-sibling
\* case and the near-red-cousin case and rotates three times.
C27_Witness ==
    /\ ~failed
    /\ \E c \in TreeAddrs :
          /\ IsBlack(heap, c)
          /\ __Remove_Adjust(Machine(heap, root), c).rots = 3
          /\ "Remove 1 left" \in __Remove_Adjust(Machine(heap, root), c).cases

\* C28: when the deletion fixup that Remove calls returns, the parent of
\* the node about to be unlinked, if it has one, is black; so a red child
\* that takes the place of the unlinked node under that parent does not
\* come under a red parent.
C28_ParentBlack ==
    (op = "Remove" /\ ~failed /\ retRemove # Nil) =>
        /\ heap[retRemove].color = "BLACK" => \E o \in seen : o.at = "fixed"
        /\ \A o \in seen :
              (o.at = "fixed" /\ "has parent" \in o.facts) => "parent black" \in o.facts
        /\ (promoted # Nil /\ promoted # root /\ IsRed(heap, promoted)) =>
              IsBlack(heap, Lock(heap, heap[promoted].parent))

\* A Remove has unlinked a black node below the root after a fixup with a
\* rotation, and the node's red child has taken its place.
C28_Witness ==
    /\ ~failed /\ op = "Remove" /\ retRemove # Nil
    /\ promoted # Nil /\ promoted # root
    /\ IsRed(heap, promoted)
    /\ rots >= 1

\* C29: one Insert rotates at most twice and one Remove at most three
\* times.
C29_RotationBound ==
    /\ op = "Insert" => rots <= 2
    /\ op = "Remove" => rots <= 3

\* A Remove has rotated three times: at the parent for a red sibling, at
\* the new sibling for its red near child, and at the parent again.
C29_Witness ==
    /\ ~failed /\ op = "Remove" /\ retRemove # Nil
    /\ rots = 3

\* The node the last Insert made: make_shared gave it the least address
\* that was free, the one after the nodes of the tree.
Added == moved[Len(before) + 1]

\* The place of node a in the in-order sequence of the tree.
InOrderPos(a) == Pos(InOrderAddrs(heap, root), a)

\* C30: with ALLOW_DUP true, Insert(root, v) into a tree that holds v
\* places the new node before every node of value v that was in the tree,
\* in the in-order sequence.
C30_DupGoesFirst ==
    (op = "Insert" /\ ALLOW_DUP /\ ~failed /\ retInsert) =>
        /\ Added \in TreeAddrs
        /\ heap[Added].value = arg
        /\ \A a \in TreeAddrs \ {Added} :
              heap[a].value = arg => InOrderPos(Added) < InOrderPos(a)

\* An Insert with ALLOW_DUP true of a value the tree held twice, with a
\* rotation in its fixup.
C30_Witness ==
    /\ ~failed /\ ALLOW_DUP /\ op = "Insert" /\ retInsert
    /\ Cardinality({i \in 1..Len(before) : before[i] = arg}) >= 2
    /\ rots >= 1

\* Machine m, left by the opposite rotation on the slot that the rotation
\* ending in the primed state has left, has the relations and the slots of
\* the unprimed state: the caller's slot holds n again, and so does the root
\* slot when it was the slot passed.
Restored(m, n) ==
    /\ m.ok
    /\ m.top = n
    /\ (IF slot' = root' THEN m.top ELSE root') = root
    /\ DOMAIN m.h = DOMAIN heap
    /\ \A a \in DOMAIN heap :
          /\ m.h[a].parent = heap[a].parent
          /\ m.h[a].left = heap[a].left
          /\ m.h[a].right = heap[a].right

\* C31: the rotations are inverse to each other.  LeftRotate on a node
\* with a right child, followed by RightRotate on the top it has left in
\* the slot, restores every parent, left and right relation of the tree and
\* the caller's slot; so does RightRotate on a node with a left child
\* followed by LeftRotate.
C31_RotateInverse ==
    [][/\ op' = "LeftRotate" =>
             Restored(RightRotate(Machine(heap', root'), slot'), arg')
       /\ op' = "RightRotate" =>
             Restored(LeftRotate(Machine(heap', root'), slot'), arg')]_vars

\* LeftRotate on a node below the root has moved a subtree from its right
\* child to it, and RightRotate on the slot would put the node back into
\* the slot.
C31_Witness ==
    /\ ~failed /\ op = "LeftRotate" /\ slot # root
    /\ heap[arg].right # Nil
    /\ heap[slot].right # Nil
    /\ RightRotate(Machine(heap, root), slot).top = arg

====
